---- MODULE Spec2Model ----
(***************************************************************************)
(* A model of the i5-req crate: the Interface5 request builder             *)
(* (types/i5_request.rs), the endpoint URL (types/i5_request_url.rs) and   *)
(* the two transports (request/mod.rs, request/blocking.rs).               *)
(*                                                                         *)
(* Rust's Option<T> is modelled as a sequence: <<>> is None and <<x>> is   *)
(* Some(x).  A value that was moved out of (a consumed `self`) is None.    *)
(* Strings are TLA+ strings; Vec<T> is a sequence.                         *)
(***************************************************************************)
EXTENDS Integers, Sequences, FiniteSets, TLC

VARIABLES
    request,          \* Option<I5Reqeust>: the caller's unvalidated request
    validated,        \* Option<ValidatedI5Request>: the wrapper, while it exists
    validate_result,  \* "none" | "Ok" | "ValidationError": what validate() returned
    handles,          \* the indices add_document returned, in call order
    last_call,        \* the last call made: its name, arguments and return value
    pc,               \* position inside i5_http_post
    body,             \* Option<String>: the local `body` of i5_http_post
    sent,             \* the HTTP requests handed to reqwest's send(), in order
    post_result,      \* "none" | "Ok" | "SerializeError" | "RequestError"
    url,              \* Option<I5RequestUrl>
    full_url,         \* Option<String>: what to_url() returned
    numbers,          \* the slice handed to is_continuous
    continuous        \* Option<bool>: what is_continuous returned

vars == <<request, validated, validate_result, handles, last_call, pc, body,
          sent, post_result, url, full_url, numbers, continuous>>

None == <<>>
Some(x) == <<x>>
Unwrap(o) == o[1]

(***************************************************************************)
(* Bounds and input sets.                                                  *)
(***************************************************************************)
\* at most this many appended elements (documents + fields + files) per request
MaxOps == 4
\* at most this many numbers in a slice handed to is_continuous
MaxNumbers == 3

DocumentNames == {"Invoice", "Order"}
FieldNames == {"Amount"}
FieldValues == {"10"}
ItemNumbers == {-1, 1, 3}
FileNames == {"scan.pdf"}
Base64Inputs == {"QUJD"}
BytesInputs == {<<77, 97>>, <<255>>}
NumberValues == {-2, -1, 0, 1, 2, 3}
Hostnames == {"localhost", "i5.example.com", "10.0.0.7"}
Ports == {43001, 443, 0, -1}
Scenarios == {"Processor", "Default", "Import"}
Tenants == {"Default", "Processor", "Acme", "Test"}
PostUrlArgs == {<<"localhost", 43001, "Processor", "Default">>}

(***************************************************************************)
(* types/i5_request.rs: Field, File, Document, I5Reqeust constructors.     *)
(***************************************************************************)
Field_new(name, value, item_number) ==
    [name |-> name, value |-> value, item_number |-> item_number]

File_new(name, data) ==
    [name |-> name, key |-> None, data_base64 |-> data]

Document_new(document_name) ==
    [name |-> document_name, fields |-> <<>>, files |-> <<>>]

I5Reqeust_new(name) ==
    [name |-> name, documents |-> <<>>]

(***************************************************************************)
(* base64::engine::general_purpose::STANDARD.encode: RFC 4648, padded.     *)
(***************************************************************************)
Base64Alphabet ==
    << "A", "B", "C", "D", "E", "F", "G", "H", "I", "J", "K", "L", "M",
       "N", "O", "P", "Q", "R", "S", "T", "U", "V", "W", "X", "Y", "Z",
       "a", "b", "c", "d", "e", "f", "g", "h", "i", "j", "k", "l", "m",
       "n", "o", "p", "q", "r", "s", "t", "u", "v", "w", "x", "y", "z",
       "0", "1", "2", "3", "4", "5", "6", "7", "8", "9", "+", "/" >>

Sextet(n) == Base64Alphabet[n + 1]

RECURSIVE Base64Encode(_)
Base64Encode(bytes) ==
    IF Len(bytes) = 0 THEN ""
    ELSE IF Len(bytes) = 1 THEN
        Sextet(bytes[1] \div 4) \o Sextet((bytes[1] % 4) * 16) \o "=="
    ELSE IF Len(bytes) = 2 THEN
        Sextet(bytes[1] \div 4)
            \o Sextet((bytes[1] % 4) * 16 + bytes[2] \div 16)
            \o Sextet((bytes[2] % 16) * 4) \o "="
    ELSE
        Sextet(bytes[1] \div 4)
            \o Sextet((bytes[1] % 4) * 16 + bytes[2] \div 16)
            \o Sextet((bytes[2] % 16) * 4 + bytes[3] \div 64)
            \o Sextet(bytes[3] % 64)
            \o Base64Encode(SubSeq(bytes, 4, Len(bytes)))

(***************************************************************************)
(* is_continuous (i5_request.rs 251-258).                                  *)
(***************************************************************************)
\* HashSet::from_iter(numbers.iter().filter(|value| **value != 0))
UniqueSet(nums) == {nums[i] : i \in 1..Len(nums)} \ {0}

SetMax(S) == CHOOSE m \in S : \A x \in S : x <= m

\* `**max as usize <= unique_set.len()`: the cast of a negative i32 to usize
\* wraps to 2^64 + max, which exceeds the length of any set; a non-negative
\* i32 keeps its value.
AsUsizeLe(max, len) == IF max < 0 THEN FALSE ELSE max <= len

is_continuous(nums) ==
    LET unique_set == UniqueSet(nums)
    IN  IF unique_set = {} THEN TRUE
        ELSE AsUsizeLe(SetMax(unique_set), Cardinality(unique_set))

(***************************************************************************)
(* I5RequestUrl (i5_request_url.rs).                                       *)
(***************************************************************************)
I5RequestUrl_new(hostname, port, scenario, tenant) ==
    [scenario |-> scenario, tenant |-> tenant, hostname |-> hostname, port |-> port]

to_url_swapped(u) ==
    "https://" \o u.hostname \o ":" \o ToString(u.port) \o "/api/v1/Input/"
        \o u.scenario \o "/" \o u.tenant \o "/Batches"

to_url(u) ==
    "https://" \o u.hostname \o ":" \o ToString(u.port) \o "/api/v1/Input/"
        \o u.tenant \o "/" \o u.scenario \o "/Batches"

(***************************************************************************)
(* Document (i5_request.rs 85-129): the append operations.                 *)
(***************************************************************************)
add_header_field(document, name, value) ==
    [document EXCEPT !.fields = Append(@, Field_new(name, value, 0))]

add_item_field_front(document, name, value, item_number) ==
    [document EXCEPT !.fields = <<Field_new(name, value, item_number)>> \o @]

add_item_field(document, name, value, item_number) ==
    [document EXCEPT !.fields = Append(@, Field_new(name, value, item_number))]

add_base64_file(document, name, base64) ==
    [document EXCEPT !.files = Append(@, File_new(name, base64))]

add_bytes_file(document, name, bytes) ==
    LET base64_string == Base64Encode(bytes)
    IN  add_base64_file(document, name, base64_string)

(***************************************************************************)
(* I5Reqeust (i5_request.rs 143-209).                                      *)
(***************************************************************************)
\* Vec::push followed by `self.documents.len() - 1`
add_document_front(self, document_name) ==
    [self  |-> [self EXCEPT !.documents = <<Document_new(document_name)>> \o @],
     index |-> Len(self.documents)]

add_document(self, document_name) ==
    LET pushed == [self EXCEPT !.documents = Append(@, Document_new(document_name))]
    IN  [self |-> pushed, index |-> Len(pushed.documents) - 1]

\* Vec::get / Vec::get_mut with a usize index: None when out of range
get_document(self, index) ==
    IF index < Len(self.documents) THEN Some(self.documents[index + 1]) ELSE None

get_document_mut(self, index) ==
    IF index < Len(self.documents) THEN Some(self.documents[index + 1]) ELSE None

\* writing through the `&mut Document` that get_document_mut(index) returned
StoreDocument(self, index, document) ==
    [self EXCEPT !.documents[index + 1] = document]

ItemNumbersOf(document) ==
    [i \in 1..Len(document.fields) |-> document.fields[i].item_number]

is_valid_documented(self) ==
    /\ Len(self.documents) # 0
    /\ \A d \in 1..Len(self.documents) :
          LET document == self.documents[d]
          IN  ~ (\/ (Len(document.fields) = 0 /\ Len(document.files) = 0)
                 \/ ~ is_continuous(ItemNumbersOf(document)))

is_valid_no_empty_check(self) ==
    \A d \in 1..Len(self.documents) :
        LET document == self.documents[d]
        IN  ~ (/\ Len(document.fields) = 0
               /\ Len(document.files) = 0
               /\ ~ is_continuous(ItemNumbersOf(document)))

is_valid(self) ==
    IF Len(self.documents) = 0 THEN FALSE
    ELSE \A d \in 1..Len(self.documents) :
            LET document == self.documents[d]
                item_numbers == ItemNumbersOf(document)
            IN  ~ (/\ Len(document.fields) = 0
                   /\ Len(document.files) = 0
                   /\ ~ is_continuous(item_numbers))

\* the tuple struct ValidatedI5Request(I5Reqeust) and its field .0
ValidatedI5Request(inner) == <<inner>>
Inner(v) == v[1]

\* validate(self): Ok(ValidatedI5Request(self)) or Err(ValidationError)
validate_unchecked(self) ==
    [result |-> "Ok", value |-> Some(ValidatedI5Request(self))]

validate(self) ==
    IF is_valid(self)
    THEN [result |-> "Ok", value |-> Some(ValidatedI5Request(self))]
    ELSE [result |-> "ValidationError", value |-> None]

(***************************************************************************)
(* serde_json::to_string over the derived Serialize impls (the renames of  *)
(* i5_request.rs 17-25, 46-54, 75-83, 135-141).  The strings of the input  *)
(* sets hold no character that JSON escapes.                               *)
(***************************************************************************)
JsonString(s) == "\"" \o s \o "\""

JsonOptionString(o) == IF o = None THEN "null" ELSE JsonString(Unwrap(o))

RECURSIVE JsonJoin(_)
JsonJoin(items) ==
    IF Len(items) = 0 THEN ""
    ELSE IF Len(items) = 1 THEN items[1]
    ELSE items[1] \o "," \o JsonJoin(Tail(items))

JsonArray(items) == "[" \o JsonJoin(items) \o "]"

JsonField(f) ==
    "{\"Name\":" \o JsonString(f.name) \o ",\"Value\":" \o JsonString(f.value)
        \o ",\"ItemNo\":" \o ToString(f.item_number) \o "}"

JsonFile(f) ==
    "{\"Name\":" \o JsonString(f.name) \o ",\"Key\":" \o JsonOptionString(f.key)
        \o ",\"Data\":" \o JsonString(f.data_base64) \o "}"

JsonDocument(d) ==
    "{\"Name\":" \o JsonString(d.name)
        \o ",\"Fields\":" \o JsonArray([i \in 1..Len(d.fields) |-> JsonField(d.fields[i])])
        \o ",\"Files\":" \o JsonArray([i \in 1..Len(d.files) |-> JsonFile(d.files[i])])
        \o "}"

JsonRequest(r) ==
    "{\"Name\":" \o JsonString(r.name)
        \o ",\"Documents\":"
        \o JsonArray([i \in 1..Len(r.documents) |-> JsonDocument(r.documents[i])])
        \o "}"

\* ValidatedI5Request::to_json_string; serde_ok is the outcome of serde_json
to_json_string(self, serde_ok) ==
    IF serde_ok THEN [result |-> "Ok", value |-> Some(JsonRequest(Inner(self)))]
    ELSE [result |-> "SerializeError", value |-> None]

(***************************************************************************)
(* The request i5_http_post builds: client.post(url.to_url())              *)
(*     .header("Conten-Type", "application/json").body(body)               *)
(***************************************************************************)
post_request(u, b) ==
    [method  |-> "POST",
     url     |-> to_url(u),
     headers |-> << <<"Conten-Type", "application/json">> >>,
     body    |-> b]

(***************************************************************************)
(* The builder session: one request is built, validated and posted.        *)
(***************************************************************************)
RECURSIVE SumLens(_)
SumLens(documents) ==
    IF Len(documents) = 0 THEN 0
    ELSE 1 + Len(documents[1].fields) + Len(documents[1].files)
           + SumLens(Tail(documents))

\* the number of elements appended to the request so far
Size(self) == SumLens(self.documents)

Building == request # None /\ Size(Unwrap(request)) < MaxOps

BuilderInit ==
    /\ request = Some(I5Reqeust_new("Batch"))
    /\ validated = None
    /\ validate_result = "none"
    /\ handles = <<>>

PostInit ==
    /\ pc = "idle"
    /\ body = None
    /\ sent = <<>>
    /\ post_result = "none"

Init ==
    /\ BuilderInit
    /\ PostInit
    /\ last_call = [op |-> "I5Reqeust::new"]
    /\ url = None
    /\ full_url = None
    /\ numbers = <<>>
    /\ continuous = None

PostVars == <<pc, body, sent, post_result, url>>
PureVars == <<full_url, numbers, continuous>>

AddDocument(document_name) ==
    /\ Building
    /\ LET r == add_document(Unwrap(request), document_name)
       IN  /\ request' = Some(r.self)
           /\ handles' = Append(handles, [index |-> r.index, name |-> document_name])
           /\ last_call' = [op |-> "add_document", ret |-> r.index]
    /\ UNCHANGED <<validated, validate_result, PostVars, PureVars>>

\* request.get_document_mut(index) is Some(document); `update` is the Document
\* method called on it
OnDocument(op, index, updated) ==
    /\ request' = Some(StoreDocument(Unwrap(request), index, updated))
    /\ last_call' = [op |-> op, index |-> index]
    /\ UNCHANGED <<validated, validate_result, handles, PostVars, PureVars>>

AddHeaderField(index, name, value) ==
    /\ Building
    /\ get_document_mut(Unwrap(request), index) # None
    /\ OnDocument("add_header_field", index,
           add_header_field(Unwrap(get_document_mut(Unwrap(request), index)),
                            name, value))

AddItemField(index, name, value, item_number) ==
    /\ Building
    /\ get_document_mut(Unwrap(request), index) # None
    /\ OnDocument("add_item_field", index,
           add_item_field(Unwrap(get_document_mut(Unwrap(request), index)),
                          name, value, item_number))

AddBase64File(index, name, base64) ==
    /\ Building
    /\ get_document_mut(Unwrap(request), index) # None
    /\ OnDocument("add_base64_file", index,
           add_base64_file(Unwrap(get_document_mut(Unwrap(request), index)),
                           name, base64))

AddBytesFile(index, name, bytes) ==
    /\ Building
    /\ get_document_mut(Unwrap(request), index) # None
    /\ OnDocument("add_bytes_file", index,
           add_bytes_file(Unwrap(get_document_mut(Unwrap(request), index)),
                          name, bytes))

\* validate(self) consumes the request
Validate ==
    /\ request # None
    /\ LET r == validate(Unwrap(request))
       IN  /\ validated' = r.value
           /\ validate_result' = r.result
    /\ request' = None
    /\ last_call' = [op |-> "validate", self |-> Unwrap(request)]
    /\ UNCHANGED <<handles, PostVars, PureVars>>

(***************************************************************************)
(* i5_http_post, blocking (request/blocking.rs) and async (request/mod.rs).*)
(* Each takes the ValidatedI5Request by value; it is dropped on return.    *)
(***************************************************************************)
Return(result) ==
    /\ post_result' = result
    /\ pc' = "returned"
    /\ validated' = None

\* let body = valid_body.to_json_string()?;
Serialize(op, u, serde_ok, next_pc) ==
    /\ pc = "idle"
    /\ validated # None
    /\ url' = Some(u)
    /\ last_call' = [op |-> op]
    /\ LET r == to_json_string(Unwrap(validated), serde_ok)
       IN  /\ body' = r.value
           /\ IF r.result = "Ok"
              THEN /\ pc' = next_pc
                   /\ UNCHANGED <<post_result, validated>>
              ELSE Return(r.result)
    /\ UNCHANGED <<request, validate_result, handles, sent, PureVars>>

BlockingSerialize(u, serde_ok) ==
    Serialize("blocking::i5_http_post", u, serde_ok, "blocking_client")

\* Client::builder().danger_accept_invalid_certs(..).build().map_err(RequestError)?
BlockingBuildClient(allow_untrusted_cert, build_ok) ==
    /\ pc = "blocking_client"
    /\ last_call' = [op |-> "Client::builder().build",
                     allow_untrusted_cert |-> allow_untrusted_cert]
    /\ IF build_ok
       THEN /\ pc' = "blocking_send"
            /\ UNCHANGED <<post_result, validated>>
       ELSE Return("RequestError")
    /\ UNCHANGED <<request, validate_result, handles, body, sent, url, PureVars>>

\* client.post(..).header(..).body(body).send() and the mapping of its result
SendRetrying(op, at, send_ok) ==
    /\ pc = at
    /\ sent' = IF send_ok
               THEN Append(sent, post_request(Unwrap(url), Unwrap(body)))
               ELSE sent \o << post_request(Unwrap(url), Unwrap(body)),
                               post_request(Unwrap(url), Unwrap(body)) >>
    /\ last_call' = [op |-> op, send_ok |-> send_ok]
    /\ Return(IF send_ok THEN "Ok" ELSE "RequestError")
    /\ UNCHANGED <<request, validate_result, handles, body, url, PureVars>>

Send(op, at, send_ok) ==
    /\ pc = at
    /\ sent' = Append(sent, post_request(Unwrap(url), Unwrap(body)))
    /\ last_call' = [op |-> op, send_ok |-> send_ok]
    /\ Return(IF send_ok THEN "Ok" ELSE "RequestError")
    /\ UNCHANGED <<request, validate_result, handles, body, url, PureVars>>

BlockingSend(send_ok) == Send("blocking::send", "blocking_send", send_ok)

AsyncSerialize(u, serde_ok) ==
    Serialize("i5_http_post", u, serde_ok, "async_send")

\* reqwest::Client::new() returns the client; then send().await
AsyncSend(send_ok) == Send("send().await", "async_send", send_ok)

PostUrls ==
    {I5RequestUrl_new(a[1], a[2], a[3], a[4]) : a \in PostUrlArgs}

Next ==
    \/ \E n \in DocumentNames : AddDocument(n)
    \/ \E i \in 0..MaxOps, n \in FieldNames, v \in FieldValues :
          AddHeaderField(i, n, v)
    \/ \E i \in 0..MaxOps, n \in FieldNames, v \in FieldValues, k \in ItemNumbers :
          AddItemField(i, n, v, k)
    \/ \E i \in 0..MaxOps, n \in FileNames, b \in Base64Inputs :
          AddBase64File(i, n, b)
    \/ \E i \in 0..MaxOps, n \in FileNames, b \in BytesInputs :
          AddBytesFile(i, n, b)
    \/ Validate
    \/ \E u \in PostUrls, ok \in BOOLEAN : BlockingSerialize(u, ok)
    \/ \E c \in BOOLEAN, ok \in BOOLEAN : BlockingBuildClient(c, ok)
    \/ \E ok \in BOOLEAN : BlockingSend(ok)
    \/ \E u \in PostUrls, ok \in BOOLEAN : AsyncSerialize(u, ok)
    \/ \E ok \in BOOLEAN : AsyncSend(ok)

Spec == Init /\ [][Next]_vars

(***************************************************************************)
(* is_continuous applied to every slice of at most MaxNumbers numbers.     *)
(***************************************************************************)
Slices == UNION {[1..n -> NumberValues] : n \in 0..MaxNumbers}

InitContinuous ==
    /\ BuilderInit
    /\ PostInit
    /\ last_call = [op |-> "I5Reqeust::new"]
    /\ url = None
    /\ full_url = None
    /\ numbers \in Slices
    /\ continuous = None

IsContinuousCall ==
    /\ continuous = None
    /\ continuous' = Some(is_continuous(numbers))
    /\ last_call' = [op |-> "is_continuous"]
    /\ UNCHANGED <<request, validated, validate_result, handles, PostVars,
                   full_url, numbers>>

NextContinuous == IsContinuousCall

SpecContinuous == InitContinuous /\ [][NextContinuous]_vars

(***************************************************************************)
(* I5RequestUrl::new(hostname, port, scenario, tenant).to_url()            *)
(***************************************************************************)
NewToUrl(hostname, port, scenario, tenant) ==
    /\ url = None
    /\ url' = Some(I5RequestUrl_new(hostname, port, scenario, tenant))
    /\ full_url' = Some(to_url(Unwrap(url')))
    /\ last_call' = [op |-> "I5RequestUrl::new(..).to_url()",
                     args |-> <<hostname, port, scenario, tenant>>]
    /\ UNCHANGED <<request, validated, validate_result, handles, pc, body, sent,
                   post_result, numbers, continuous>>

NextUrl ==
    \E h \in Hostnames, p \in Ports, s \in Scenarios, t \in Tenants :
        NewToUrl(h, p, s, t)

SpecUrl == Init /\ [][NextUrl]_vars

(***************************************************************************)
(* Properties.                                                             *)
(***************************************************************************)
Documents == Unwrap(request).documents

IsEmptyDocument(d) == Len(d.fields) = 0 /\ Len(d.files) = 0

AllDocumentsNonEmpty(r) ==
    \A d \in 1..Len(r.documents) : ~ IsEmptyDocument(r.documents[d])

IsPrefix(s, t) == Len(s) <= Len(t) /\ SubSeq(t, 1, Len(s)) = s

\* C1: is_continuous(numbers) is true if and only if the set left after
\* discarding zeros and duplicates is empty or is exactly {1, ..., max}.
C1_ContinuousIffGapless ==
    continuous # None =>
        LET S == {numbers[i] : i \in 1..Len(numbers)} \ {0}
        IN  Unwrap(continuous) <=> (S = {} \/ S = 1..SetMax(S))

\* C2: whenever is_valid() is true, and whenever a ValidatedI5Request exists,
\* every document of the request holds at least one field or one file.
C2_ValidDocumentsNonEmpty ==
    /\ (request # None /\ is_valid(Unwrap(request)))
          => AllDocumentsNonEmpty(Unwrap(request))
    /\ validated # None => AllDocumentsNonEmpty(Inner(Unwrap(validated)))

\* C3: a request with zero documents is never valid: is_valid() is false and
\* validate() returns Err(ValidationError) and no ValidatedI5Request.
C3_NoDocumentsNeverValid ==
    /\ (request # None /\ Len(Documents) = 0) => ~ is_valid(Unwrap(request))
    /\ (last_call.op = "validate" /\ Len(last_call.self.documents) = 0)
          => (validate_result = "ValidationError" /\ validated = None)

C3_Witness ==
    /\ last_call.op = "validate"
    /\ Len(last_call.self.documents) = 0
    /\ validate_result = "ValidationError"

\* C4: a ValidatedI5Request comes into existence only by validate() on a
\* request for which is_valid() holds, wrapping exactly that request's
\* content, and no step changes the wrapped content while the wrapper exists.
C4_ValidatedOnlyByValidateAndFrozen ==
    [][validated' # None =>
          \/ validated' = validated
          \/ /\ validated = None
             /\ request # None
             /\ is_valid(Unwrap(request))
             /\ validated' = Some(ValidatedI5Request(Unwrap(request)))
             /\ validate_result' = "Ok"]_vars

C4_Witness ==
    /\ validated # None
    /\ pc = "blocking_send"
    /\ body # None
    /\ Len(Inner(Unwrap(validated)).documents) = 2

\* C5: the k-th add_document call returned k; get_document(k) and
\* get_document_mut(k) keep returning the document created by that call, which
\* only ever grows; get_document(i) is None exactly when i >= the number of
\* documents.
C5_Indices ==
    request # None =>
        /\ \A k \in 1..Len(handles) :
              /\ handles[k].index = k - 1
              /\ get_document(Unwrap(request), handles[k].index) # None
              /\ Unwrap(get_document(Unwrap(request), handles[k].index)).name
                    = handles[k].name
              /\ get_document_mut(Unwrap(request), handles[k].index)
                    = get_document(Unwrap(request), handles[k].index)
        /\ \A i \in 0..(MaxOps + 1) :
              (get_document(Unwrap(request), i) = None) <=> (i >= Len(Documents))

C5_SameDocument ==
    (request # None /\ request' # None) =>
        \A k \in 1..Len(handles) :
            LET before == get_document(Unwrap(request), handles[k].index)
                after  == get_document(Unwrap(request'), handles[k].index)
            IN  /\ before # None
                /\ after # None
                /\ Unwrap(after).name = Unwrap(before).name
                /\ IsPrefix(Unwrap(before).fields, Unwrap(after).fields)
                /\ IsPrefix(Unwrap(before).files, Unwrap(after).files)

C5_StableIndices == [] C5_Indices /\ [][C5_SameDocument]_vars

C5_Witness ==
    /\ request # None
    /\ Len(handles) = 2
    /\ handles[1].name # handles[2].name
    /\ last_call.op = "add_item_field"
    /\ last_call.index = 0
    /\ Len(Unwrap(get_document(Unwrap(request), 0)).fields) = 2

\* C6: every HTTP request i5_http_post issues carries the header
\* Content-Type: application/json and the serialized payload as its body.
C6_ContentTypeHeader ==
    \A i \in 1..Len(sent) :
        /\ \E h \in 1..Len(sent[i].headers) :
              sent[i].headers[h] = <<"Content-Type", "application/json">>
        /\ body # None
        /\ sent[i].body = Unwrap(body)

OthersUnchanged(r, r2, index) ==
    /\ Len(r2.documents) = Len(r.documents)
    /\ \A j \in 1..Len(r.documents) :
          j # index + 1 => r2.documents[j] = r.documents[j]

AppendsOneField(d, d2) ==
    /\ d2.name = d.name
    /\ d2.files = d.files
    /\ Len(d2.fields) = Len(d.fields) + 1
    /\ SubSeq(d2.fields, 1, Len(d.fields)) = d.fields

AppendsOneFile(d, d2) ==
    /\ d2.name = d.name
    /\ d2.fields = d.fields
    /\ Len(d2.files) = Len(d.files) + 1
    /\ SubSeq(d2.files, 1, Len(d.files)) = d.files

C8_Step ==
    (request # None /\ request' # None /\ request' # request) =>
        LET r  == Unwrap(request)
            r2 == Unwrap(request')
            op == last_call'.op
        IN  /\ r2.name = r.name
            /\ op \in {"add_document", "add_header_field", "add_item_field",
                       "add_base64_file", "add_bytes_file"}
            /\ op = "add_document" =>
                  /\ Len(r2.documents) = Len(r.documents) + 1
                  /\ SubSeq(r2.documents, 1, Len(r.documents)) = r.documents
                  /\ IsEmptyDocument(r2.documents[Len(r2.documents)])
            /\ op \in {"add_header_field", "add_item_field"} =>
                  /\ OthersUnchanged(r, r2, last_call'.index)
                  /\ AppendsOneField(r.documents[last_call'.index + 1],
                                     r2.documents[last_call'.index + 1])
            /\ op = "add_header_field" =>
                  LET fs == r2.documents[last_call'.index + 1].fields
                  IN  fs[Len(fs)].item_number = 0
            /\ op \in {"add_base64_file", "add_bytes_file"} =>
                  /\ OthersUnchanged(r, r2, last_call'.index)
                  /\ AppendsOneFile(r.documents[last_call'.index + 1],
                                    r2.documents[last_call'.index + 1])

C8_PureAppend == [][C8_Step]_vars

C8_Witness ==
    /\ request # None
    /\ Len(Documents) = 2
    /\ last_call.op = "add_item_field"
    /\ last_call.index = 0
    /\ Len(Documents[1].fields) = 2
    /\ Documents[1].fields[1].item_number # Documents[1].fields[2].item_number
    /\ Len(Documents[2].fields) + Len(Documents[2].files) = 0

\* C9: one call to i5_http_post serializes first and then issues at most one
\* HTTP POST: SerializeError means nothing was sent, RequestError means the
\* client could not be built (nothing sent) or the single send failed (no
\* retry), and Ok is returned only after the single send succeeded.
SendReturned == last_call.op \in {"blocking::send", "send().await"}

====
